---- MODULE Spec2Model ----
(***************************************************************************)
(* TechPal chat backend: the message validator, the provider gateway with  *)
(* its fallback table (app/llm_service.py), the conversation store         *)
(* (app/crud.py, app/models.py) and the HTTP handlers that orchestrate     *)
(* them (app/api.py).                                                      *)
(*                                                                         *)
(* A Python str is a sequence of one-character strings.  A request handler *)
(* is a process that takes one step per database statement or provider     *)
(* call, so that handlers of concurrent requests interleave exactly where  *)
(* the store lets them.                                                    *)
(***************************************************************************)
EXTENDS Integers, Sequences, FiniteSets, TLC

(***************************************************************************)
(* Bounds of the model.                                                    *)
(***************************************************************************)
\* Requests received in one behaviour.
MaxRequests == 2

\* Python's None.
None == "None"

(***************************************************************************)
(* Python str helpers.                                                     *)
(***************************************************************************)
UpperChars ==
    <<"A", "B", "C", "D", "E", "F", "G", "H", "I", "J", "K", "L", "M",
      "N", "O", "P", "Q", "R", "S", "T", "U", "V", "W", "X", "Y", "Z">>

LowerChars ==
    <<"a", "b", "c", "d", "e", "f", "g", "h", "i", "j", "k", "l", "m",
      "n", "o", "p", "q", "r", "s", "t", "u", "v", "w", "x", "y", "z">>

\* Characters str.strip() removes.
Whitespace == {" ", "\t", "\n", "\r"}

\* Characters int() accepts as a one-character decimal number.
Digits == {"0", "1", "2", "3", "4", "5", "6", "7", "8", "9"}

\* str.lower() on one character.
LowerChar(c) ==
    IF \E i \in 1..Len(UpperChars) : UpperChars[i] = c
    THEN LowerChars[CHOOSE i \in 1..Len(UpperChars) : UpperChars[i] = c]
    ELSE c

\* A str left as it is.
Verbatim(s) == s

\* str.lower()
Lower(s) == [i \in 1..Len(s) |-> LowerChar(s[i])]

\* len(s) == 0, without the strip.
IsEmptyStr(s) == Len(s) = 0

\* len(s.strip()) == 0
StripIsEmpty(s) == \A i \in 1..Len(s) : s[i] \in Whitespace

\* Python's `needle in hay` on two str values.
Contains(hay, needle) ==
    \E i \in 1..(Len(hay) - Len(needle) + 1) :
        SubSeq(hay, i, i + Len(needle) - 1) = needle

\* s[:n]
Prefix(s, n) == SubSeq(s, 1, IF Len(s) < n THEN Len(s) ELSE n)

(***************************************************************************)
(* LLMService.validate_message                                             *)
(***************************************************************************)
\* The longest message validate_message accepts.
MaxMessageLen == 1000

inappropriate_words ==
    << <<"p", "a", "s", "s", "w", "o", "r", "d">>,
       <<"c", "r", "e", "d", "i", "t", " ", "c", "a", "r", "d">>,
       <<"s", "o", "c", "i", "a", "l", " ", "s", "e", "c", "u", "r", "i", "t", "y">>,
       <<"a", "d", "d", "r", "e", "s", "s">>,
       <<"p", "h", "o", "n", "e", " ", "n", "u", "m", "b", "e", "r">>,
       <<"p", "e", "r", "s", "o", "n", "a", "l", " ", "i", "n", "f", "o", "r", "m", "a", "t", "i", "o", "n">>,
       <<"p", "r", "i", "v", "a", "t", "e">>,
       <<"s", "e", "c", "r", "e", "t">> >>

ReasonEmpty == "Message cannot be empty"
ReasonTooLong == "Message too long (max 1000 characters)"
ReasonPersonal == "Please don't share personal information. Ask a parent or teacher for help with personal matters."
ReasonOk == "Message is appropriate"

\* validate_message as it would be if the limit itself were too long.
validate_message_below_limit(message) ==
    IF Len(message) = 0 \/ StripIsEmpty(message)
    THEN [valid |-> FALSE, reason |-> ReasonEmpty]
    ELSE IF Len(message) >= MaxMessageLen
    THEN [valid |-> FALSE, reason |-> ReasonTooLong]
    ELSE IF \E k \in 1..Len(inappropriate_words) :
                Contains(Lower(message), inappropriate_words[k])
    THEN [valid |-> FALSE, reason |-> ReasonPersonal]
    ELSE [valid |-> TRUE, reason |-> ReasonOk]

\* The dict validate_message returns.
validate_message(message) ==
    IF Len(message) = 0 \/ StripIsEmpty(message)
    THEN [valid |-> FALSE, reason |-> ReasonEmpty]
    ELSE IF Len(message) > MaxMessageLen
    THEN [valid |-> FALSE, reason |-> ReasonTooLong]
    ELSE IF \E k \in 1..Len(inappropriate_words) :
                Contains(Lower(message), inappropriate_words[k])
    THEN [valid |-> FALSE, reason |-> ReasonPersonal]
    ELSE [valid |-> TRUE, reason |-> ReasonOk]

\* Python truth value of a dict: true unless it has no key.
DictTruthy(d) == DOMAIN d # {}

(***************************************************************************)
(* LLMService._get_fallback_response                                       *)
(***************************************************************************)
AgeGroups == {"8-10", "11-13", "14-16"}

Topics == {"greeting", "computer", "internet", "coding", "safety", "math",
           "science", "default"}

\* The keyword lists, in the order the if/elif chain tests them.
topic_keywords ==
    << [topic |-> "greeting", words |->
            {<<"h", "e", "l", "l", "o">>, <<"h", "i">>, <<"h", "e", "y">>, <<"s", "t", "a", "r", "t">>}],
       [topic |-> "computer", words |->
            {<<"c", "o", "m", "p", "u", "t", "e", "r">>, <<"p", "c">>, <<"l", "a", "p", "t", "o", "p">>, <<"m", "a", "c", "h", "i", "n", "e">>}],
       [topic |-> "internet", words |->
            {<<"i", "n", "t", "e", "r", "n", "e", "t">>, <<"w", "e", "b">>, <<"o", "n", "l", "i", "n", "e">>, <<"n", "e", "t", "w", "o", "r", "k">>}],
       [topic |-> "coding", words |->
            {<<"c", "o", "d", "e">>, <<"p", "r", "o", "g", "r", "a", "m", "m", "i", "n", "g">>, <<"c", "o", "d", "i", "n", "g">>, <<"p", "y", "t", "h", "o", "n">>, <<"j", "a", "v", "a", "s", "c", "r", "i", "p", "t">>}],
       [topic |-> "safety", words |->
            {<<"s", "a", "f", "e">>, <<"s", "a", "f", "e", "t", "y">>, <<"p", "r", "o", "t", "e", "c", "t">>, <<"s", "e", "c", "u", "r", "i", "t", "y">>}],
       [topic |-> "math", words |->
            {<<"m", "a", "t", "h">>, <<"m", "a", "t", "h", "e", "m", "a", "t", "i", "c", "s">>, <<"c", "a", "l", "c", "u", "l", "a", "t", "e">>, <<"e", "q", "u", "a", "t", "i", "o", "n">>}],
       [topic |-> "science", words |->
            {<<"s", "c", "i", "e", "n", "c", "e">>, <<"s", "c", "i", "e", "n", "t", "i", "f", "i", "c">>, <<"p", "h", "y", "s", "i", "c", "s">>, <<"c", "h", "e", "m", "i", "s", "t", "r", "y">>, <<"b", "i", "o", "l", "o", "g", "y">>}] >>

\* any(word in message_lower for word in [...]) for the k-th keyword list.
TopicMatches(message_lower, k) ==
    \E w \in topic_keywords[k].words : Contains(message_lower, w)

\* The topic the if/elif chain selects for a lower-cased message.
SelectTopic(message_lower) ==
    IF \E k \in 1..Len(topic_keywords) : TopicMatches(message_lower, k)
    THEN topic_keywords[CHOOSE k \in 1..Len(topic_keywords) :
                            /\ TopicMatches(message_lower, k)
                            /\ \A j \in 1..(k - 1) : ~TopicMatches(message_lower, j)].topic
    ELSE "default"

\* An entry self.fallback_responses[age_group][topic].  Every entry of the
\* table is a str of more than three characters.
FallbackEntry(age_group, topic) ==
    [type |-> "canned", val |-> <<age_group, topic>>]

FallbackTable == {FallbackEntry(a, t) : a \in AgeGroups, t \in Topics}

\* A value of the Python program that is passed as get_response's message.
PyStr(s) == [type |-> "str", val |-> s]
PyList(l) == [type |-> "list", val |-> l]

\* A raised exception: its class, its status_code when it is an HTTPException
\* (0 otherwise) and its message.
Exc(type, msg) == [type |-> type, status |-> 0, msg |-> msg]
HTTPException(status_code, detail) ==
    [type |-> "HTTPException", status |-> status_code, msg |-> detail]
NoExc == Exc("", "")

\* How a call ends: it returns a value or raises an exception.
NoValue == [type |-> "none", val |-> <<>>]
Return(v) == [kind |-> "return", value |-> v, exc |-> NoExc]
Raise(e) == [kind |-> "raise", value |-> NoValue, exc |-> e]

\* message.lower() exists on a str only; a list raises AttributeError.
AttributeErrorLower ==
    Exc("AttributeError", "'list' object has no attribute 'lower'")

_get_fallback_response(message, age_group) ==
    IF message.type # "str"
    THEN Raise(AttributeErrorLower)
    ELSE LET age == IF age_group \in AgeGroups THEN age_group ELSE "11-13"
         IN  Return(FallbackEntry(age, SelectTopic(Lower(message.val))))

(***************************************************************************)
(* State.                                                                  *)
(***************************************************************************)
VARIABLES
    openai_client,      \* LLMService.openai_client is set (a usable key was in the environment)
    anthropic_client,   \* LLMService.anthropic_client is set
    users,              \* table users: a sequence of rows, users[i].id = i (rows are never deleted)
    conversations,      \* table conversations: a set of rows
    messages,           \* table messages: a sequence of rows in insertion (rowid) order
    clock,              \* datetime.utcnow() of the latest commit
    pc,                 \* pc[p]: where handler p stands in its request
    req,                \* req[p]: the request handler p serves (or served last)
    loc,                \* loc[p]: the handler's local variables
    out,                \* out[p]: the HTTP outcome of the request, status 0 while there is none
    made,               \* made[p]: ids of the rows the request inserted
    nreq,               \* requests received so far
    gw,                 \* the latest direct call of llm_service.get_response
    crud,               \* the direct calls of the functions of app/crud.py
    vm                  \* the latest direct call of llm_service.validate_message

vars == <<openai_client, anthropic_client, users, conversations, messages,
          clock, pc, req, loc, out, made, nreq, gw, crud, vm>>

store == <<users, conversations, messages, clock>>

(***************************************************************************)
(* The provider calls.  What a provider answers is outside the program: an *)
(* attempt either raises (network error, malformed response, an error the  *)
(* provider reports) or yields the reply text.                             *)
(***************************************************************************)
ProviderFailures == {"network error", "malformed response", "provider error"}

ProviderReplies ==
    { <<"a", "1", "b">>, <<"Y", "e", "s">>, <<"S", "u", "r", "e">> }

ProviderOutcomes ==
    {[ok |-> FALSE, err |-> f, text |-> <<>>] : f \in ProviderFailures}
    \cup {[ok |-> TRUE, err |-> "", text |-> r] : r \in ProviderReplies}

IsFailure(o) == ~o.ok

\* The system directive, parameterized by the age group.
SystemPrompt(age_group) == [directive |-> "TechPal", age_group |-> age_group]

_prepare_messages(user_message, age_group) ==
    << [role |-> "system", content |-> SystemPrompt(age_group)],
       [role |-> "user", content |-> user_message] >>

\* The except clause logs and re-raises whatever the client raised.
_get_openai_response(message, age_group, o) ==
    IF IsFailure(o) THEN Raise(Exc("APIError", o.err)) ELSE Return(PyStr(o.text))

_get_anthropic_response(message, age_group, o) ==
    IF IsFailure(o) THEN Raise(Exc("APIError", o.err)) ELSE Return(PyStr(o.text))

\* The outcomes to consider for provider `name` in a call that prefers
\* `provider`: all of them when the call attempts it, else any one.
AnyOutcome == CHOOSE o \in ProviderOutcomes : TRUE

\* Which branch of get_response's try block returns.
FirstChoice(provider) ==
    IF provider = "openai" /\ openai_client THEN "openai"
    ELSE IF provider = "anthropic" /\ anthropic_client THEN "anthropic"
    ELSE IF provider # "anthropic" /\ anthropic_client THEN "anthropic"
    ELSE IF provider # "openai" /\ openai_client THEN "openai"
    ELSE "fallback"

OutcomesOf(name, provider) ==
    IF FirstChoice(provider) = name THEN ProviderOutcomes ELSE {AnyOutcome}

\* The provider a retry would turn to: the one that was not tried, when it
\* is configured.
OtherProvider(first) ==
    IF first = "openai" /\ anthropic_client THEN "anthropic"
    ELSE IF first = "anthropic" /\ openai_client THEN "openai"
    ELSE "fallback"

\* get_response as it would be if a failed attempt were followed by an
\* attempt of the other configured provider.
get_response_retrying(message, age_group, provider, oa, an) ==
    LET first == FirstChoice(provider)
        second == OtherProvider(first)
        call(name) == IF name = "openai"
                      THEN _get_openai_response(message, age_group, oa)
                      ELSE IF name = "anthropic"
                      THEN _get_anthropic_response(message, age_group, an)
                      ELSE _get_fallback_response(message, age_group)
    IN  IF call(first).kind = "return"
        THEN [result |-> call(first), attempts |-> <<first>>]
        ELSE IF second # "fallback" /\ call(second).kind = "return"
        THEN [result |-> call(second), attempts |-> <<first, second>>]
        ELSE IF second # "fallback"
        THEN [result |-> _get_fallback_response(message, age_group),
              attempts |-> <<first, second, "fallback">>]
        ELSE [result |-> _get_fallback_response(message, age_group),
              attempts |-> <<first, "fallback">>]

\* get_response, with oa and an the outcomes the two providers would give.
\* result: what the call returns or raises; attempts: the calls it made, in order.
get_response(message, age_group, provider, oa, an) ==
    LET first == FirstChoice(provider)
        tried == IF first = "openai"
                 THEN _get_openai_response(message, age_group, oa)
                 ELSE IF first = "anthropic"
                 THEN _get_anthropic_response(message, age_group, an)
                 ELSE _get_fallback_response(message, age_group)
    IN  IF tried.kind = "raise"
        THEN [result |-> _get_fallback_response(message, age_group),
              attempts |-> <<first, "fallback">>]
        ELSE [result |-> tried, attempts |-> <<first>>]

(***************************************************************************)
(* Requests and handlers.                                                  *)
(***************************************************************************)
\* Request handlers that run at the same time.
NumProcs == 2

Procs == 1..NumProcs

\* Session tokens the callers send.
Sessions == {"s1", "s2"}

\* A message one character longer than validate_message accepts.
LongMessage == [i \in 1..(MaxMessageLen + 1) |-> "a"]

\* The messages the chat requests carry: a greeting, one with a disallowed
\* term, a whitespace-only one and one that is too long.
ChatMessages ==
    { <<"H", "e", "l", "l", "o", "!">>,
      <<"m", "y", " ", "P", "a", "s", "s", "w", "o", "r", "d">>,
      <<" ", " ">>,
      LongMessage }

\* ChatRequest.age_group is optional.
AgeInputs == {"8-10", "14-16", None}

\* The messages and age groups of the requests that run concurrently.
ConcurrentMessages == { <<"H", "e", "l", "l", "o", "!">> }
ConcurrentAges == {"8-10", None}

\* ChatRequest.conversation_id; 0 stands for an absent id (None), which
\* `if request.conversation_id:` treats like 0.  The ids are those that the
\* requests before this one can have created.
ConvIdInputs == 0..(MaxRequests - 1)

\* What a request has inserted: the ids of its user and conversation rows
\* and, in order, id, conversation and role of its message rows.
NoRows == [users |-> {}, conversations |-> {}, messages |-> <<>>]

NoCall ==
    [called |-> FALSE, message |-> NoValue, result |-> Return(NoValue),
     attempts |-> <<>>]

\* The handler's locals: user.id, conversation.id, the call of get_response
\* and the three values its result was unpacked into.
NoLocals ==
    [user |-> 0, conversation |-> 0, llm |-> NoCall, response |-> <<>>,
     assistant_message |-> 0]

NoRequest ==
    [kind |-> "", session_id |-> "", message |-> <<>>, age_group |-> None,
     conversation_id |-> 0]

NoOutcome == [status |-> 0, prefix |-> "", cause |-> NoExc, body |-> <<>>]

\* The detail prefix of each handler's except clause.
FailPrefix(kind) ==
    CASE kind = "chat" -> "Failed to process chat request: "
      [] kind = "list" -> "Failed to get conversations: "
      [] kind = "detail" -> "Failed to get conversation details: "
      [] kind = "delete" -> "Failed to delete conversation: "

\* `except Exception as e: raise HTTPException(500, detail=prefix + str(e))`:
\* every exception raised in the try block, an HTTPException included, leaves
\* the handler as a 500.
HandlerRaise(kind, e) ==
    [status |-> 500, prefix |-> FailPrefix(kind), cause |-> e, body |-> <<>>]

HandlerReturn(body) ==
    [status |-> 200, prefix |-> "", cause |-> NoExc, body |-> body]

\* What a handler answers when its `raise HTTPException(404, "Conversation
\* not found")` has gone through its except clause.
NotFoundResponse(kind) ==
    HandlerRaise(kind, HTTPException(404, "Conversation not found"))

(***************************************************************************)
(* The store (app/crud.py over the tables of app/models.py).               *)
(***************************************************************************)
\* A lookup that finds no user, whatever the table holds.
get_user_by_session_id_blind(session_id) == 0

\* get_user_by_session_id: the row's id, 0 when there is none.
get_user_by_session_id(session_id) ==
    IF \E i \in 1..Len(users) : users[i].session_id = session_id
    THEN CHOOSE i \in 1..Len(users) : users[i].session_id = session_id
    ELSE 0

\* get_conversation returns a row or None.
ConversationExists(id) == \E c \in conversations : c.id = id
get_conversation(id) == CHOOSE c \in conversations : c.id = id

Max(S) == IF S = {} THEN 0 ELSE CHOOSE x \in S : \A y \in S : y <= x

\* The integer primary key of a new row: one more than the largest in use.
NextConversationId == Max({c.id : c \in conversations}) + 1
NextMessageId == Max({messages[i].id : i \in 1..Len(messages)}) + 1

MessageExists(id) == \E i \in 1..Len(messages) : messages[i].id = id

\* The title the chat handler gives a new conversation.
TitleLen == 50
Title(message) ==
    IF Len(message) > TitleLen
    THEN Prefix(message, TitleLen) \o <<".", ".", ".">>
    ELSE message

\* create_conversation replaces an empty title by the date.
DefaultTitle == <<"Conversation ", "%Y-%m-%d %H:%M">>

\* The row create_conversation inserts.
NewConversation(user_id, title) ==
    [id |-> NextConversationId, user_id |-> user_id,
     title |-> IF Len(title) = 0 THEN DefaultTitle ELSE title,
     created_at |-> clock + 1, updated_at |-> clock + 1]

\* The row create_message inserts.
NewMessage(conversation_id, content, role, tokens_used, llm_provider) ==
    [id |-> NextMessageId, conversation_id |-> conversation_id,
     role |-> role, content |-> content, created_at |-> clock + 1,
     tokens_used |-> tokens_used, llm_provider |-> llm_provider]

\* ORDER BY created_at DESC, which get_conversation_messages does not use.
OrderByCreatedAtDescending(ms) ==
    [i \in 1..Len(ms) |->
        ms[CHOOSE j \in 1..Len(ms) :
              Cardinality({k \in 1..Len(ms) :
                  \/ ms[k].created_at > ms[j].created_at
                  \/ ms[k].created_at = ms[j].created_at /\ k < j}) = i - 1]]

\* get_conversation_messages: the rows of the conversation by created_at.
\* ORDER BY created_at; rows of equal created_at stay in rowid order.
OrderByCreatedAt(ms) ==
    [i \in 1..Len(ms) |->
        ms[CHOOSE j \in 1..Len(ms) :
              Cardinality({k \in 1..Len(ms) :
                  \/ ms[k].created_at < ms[j].created_at
                  \/ ms[k].created_at = ms[j].created_at /\ k < j}) = i - 1]]

get_conversation_messages(conversation_id) ==
    OrderByCreatedAt(
        SelectSeq(messages, LAMBDA m : m.conversation_id = conversation_id))

\* get_conversation_history
get_conversation_history(conversation_id) ==
    LET ms == get_conversation_messages(conversation_id)
    IN  [i \in 1..Len(ms) |-> [role |-> ms[i].role, content |-> ms[i].content]]

\* delete_conversation as it would be if it left the messages in place.
delete_conversation_keeping_messages(conversation_id) ==
    IF ConversationExists(conversation_id)
    THEN [returned |-> TRUE,
          conversations |-> conversations \ {get_conversation(conversation_id)},
          messages |-> messages]
    ELSE [returned |-> FALSE, conversations |-> conversations,
          messages |-> messages]

\* delete_conversation: what it returns and the tables it leaves.  When the
\* conversation is there, its messages and the row are deleted in one commit.
delete_conversation(conversation_id) ==
    IF ConversationExists(conversation_id)
    THEN [returned |-> TRUE,
          conversations |-> conversations \ {get_conversation(conversation_id)},
          messages |-> SelectSeq(messages,
                          LAMBDA m : m.conversation_id # conversation_id)]
    ELSE [returned |-> FALSE, conversations |-> conversations,
          messages |-> messages]

(***************************************************************************)
(* Steps shared by the handlers.                                           *)
(***************************************************************************)
Finish(p, outcome) ==
    /\ pc' = [pc EXCEPT ![p] = "idle"]
    /\ out' = [out EXCEPT ![p] = outcome]

\* A handler receives request r, one of at most max of the behaviour.
ReceiveWithin(p, r, max) ==
    /\ pc[p] = "idle"
    /\ nreq < max
    /\ nreq' = nreq + 1
    /\ req' = [req EXCEPT ![p] = r]
    /\ made' = [made EXCEPT ![p] = NoRows]

\* A handler receives request r.
Receive(p, r) == ReceiveWithin(p, r, MaxRequests)

\* The label a handler goes to once it holds its user.
AfterUser(kind) ==
    CASE kind = "chat" -> "resolve"
      [] kind = "list" -> "list"
      [] kind = "detail" -> "detail"
      [] kind = "delete" -> "delete_check"

\* The handlers as they would be if they only looked the user up.
GetUser_without_create(p, r) ==
    /\ loc' = [loc EXCEPT ![p] =
                  [NoLocals EXCEPT !.user = get_user_by_session_id(r.session_id)]]
    /\ pc' = [pc EXCEPT ![p] = AfterUser(r.kind)]
    /\ out' = [out EXCEPT ![p] = NoOutcome]

\* get_or_create_user, first statement: the SELECT of get_user_by_session_id.
GetUser(p, r) ==
    LET user == get_user_by_session_id(r.session_id)
    IN  /\ loc' = [loc EXCEPT ![p] = [NoLocals EXCEPT !.user = user]]
        /\ pc' = [pc EXCEPT ![p] =
                    IF user = 0 THEN "create_user" ELSE AfterUser(r.kind)]
        /\ out' = [out EXCEPT ![p] = NoOutcome]

\* create_user as it would be on a column without the unique constraint.
CreateUser_unconstrained(p) ==
    /\ pc[p] = "create_user"
    /\ users' = Append(users,
           [id |-> Len(users) + 1, session_id |-> req[p].session_id,
            age_group |-> req[p].age_group, created_at |-> clock + 1])
    /\ clock' = clock + 1
    /\ loc' = [loc EXCEPT ![p].user = Len(users) + 1]
    /\ made' = [made EXCEPT ![p].users = {Len(users) + 1}]
    /\ pc' = [pc EXCEPT ![p] = AfterUser(req[p].kind)]
    /\ UNCHANGED <<openai_client, anthropic_client, conversations, messages,
                   req, out, nreq, gw, crud, vm>>

\* get_or_create_user, second statement: create_user's INSERT and commit.
\* users.session_id is unique: the INSERT of a token that another request
\* has inserted since the SELECT raises IntegrityError.
CreateUser(p) ==
    /\ pc[p] = "create_user"
    /\ IF get_user_by_session_id(req[p].session_id) # 0
       THEN /\ Finish(p, HandlerRaise(req[p].kind,
                   Exc("IntegrityError", "UNIQUE constraint failed: users.session_id")))
            /\ UNCHANGED <<users, clock, loc, made>>
       ELSE /\ users' = Append(users,
                   [id |-> Len(users) + 1, session_id |-> req[p].session_id,
                    age_group |-> req[p].age_group, created_at |-> clock + 1])
            /\ clock' = clock + 1
            /\ loc' = [loc EXCEPT ![p].user = Len(users) + 1]
            /\ made' = [made EXCEPT ![p].users = {Len(users) + 1}]
            /\ pc' = [pc EXCEPT ![p] = AfterUser(req[p].kind)]
            /\ UNCHANGED out
    /\ UNCHANGED <<openai_client, anthropic_client, conversations, messages,
                   req, nreq, gw, crud, vm>>

(***************************************************************************)
(* POST /chat: chat_with_techpal.                                          *)
(***************************************************************************)
\* Lines 113-122: the request arrives, the message is validated and the
\* user is looked up.  validate_message returns a dict and the handler
\* tests the dict itself.
ChatReceive(p, msgs, ages) ==
    /\ \E sid \in Sessions, m \in msgs, a \in ages, cid \in ConvIdInputs :
         LET r == [kind |-> "chat", session_id |-> sid, message |-> m,
                   age_group |-> a, conversation_id |-> cid]
         IN  /\ Receive(p, r)
             /\ IF ~DictTruthy(validate_message(m))
                THEN /\ Finish(p, HandlerRaise("chat", HTTPException(400,
                            "Message contains inappropriate content for children")))
                     /\ loc' = [loc EXCEPT ![p] = NoLocals]
                ELSE GetUser(p, r)
    /\ UNCHANGED <<openai_client, anthropic_client, store, gw, crud, vm>>

\* A chat request arrives at the service.
ChatBegin(p) == ChatReceive(p, ChatMessages, AgeInputs)

\* A chat request arrives at one of several workers.
ConcurrentChatBegin(p) == ChatReceive(p, ConcurrentMessages, ConcurrentAges)

\* Lines 124-135: the conversation the request names is read and checked,
\* or a new one is inserted.
ChatResolve(p) ==
    /\ pc[p] = "resolve"
    /\ IF req[p].conversation_id # 0
       THEN IF \/ ~ConversationExists(req[p].conversation_id)
               \/ get_conversation(req[p].conversation_id).user_id # loc[p].user
            THEN /\ Finish(p, HandlerRaise("chat",
                        HTTPException(404, "Conversation not found")))
                 /\ UNCHANGED <<conversations, clock, loc, made>>
            ELSE /\ loc' = [loc EXCEPT ![p].conversation = req[p].conversation_id]
                 /\ pc' = [pc EXCEPT ![p] = "user_message"]
                 /\ UNCHANGED <<conversations, clock, out, made>>
       ELSE LET c == NewConversation(loc[p].user, Title(req[p].message))
            IN  /\ conversations' = conversations \cup {c}
                /\ clock' = clock + 1
                /\ loc' = [loc EXCEPT ![p].conversation = c.id]
                /\ made' = [made EXCEPT ![p].conversations = @ \cup {c.id}]
                /\ pc' = [pc EXCEPT ![p] = "user_message"]
                /\ UNCHANGED out
    /\ UNCHANGED <<openai_client, anthropic_client, users, messages, req, nreq, gw, crud, vm>>

\* The chat handler as it would be if it called the gateway before it
\* stored the user message.
ChatUserMessage_deferred(p) ==
    /\ pc[p] = "user_message"
    /\ pc' = [pc EXCEPT ![p] = "get_response"]
    /\ UNCHANGED <<openai_client, anthropic_client, store, req, loc, out, made,
                   nreq, gw, crud, vm>>

\* Lines 137-140: create_message inserts the user message and commits.
\* The foreign key to conversations is not enforced.
ChatUserMessage(p) ==
    /\ pc[p] = "user_message"
    /\ LET m == NewMessage(loc[p].conversation, req[p].message, "user", "0", "unknown")
       IN  /\ messages' = Append(messages, m)
           /\ made' = [made EXCEPT ![p].messages = Append(@,
                    [id |-> m.id, conversation_id |-> m.conversation_id, role |-> m.role])]
    /\ clock' = clock + 1
    /\ pc' = [pc EXCEPT ![p] = "get_response"]
    /\ UNCHANGED <<openai_client, anthropic_client, users, conversations, req,
                   loc, out, nreq, gw, crud, vm>>

\* `a, b, c = value`: a str of three characters unpacks into its characters.
CanUnpack3(v) == v.type = "str" /\ Len(v.val) = 3

UnpackError(v) ==
    Exc("ValueError",
        IF v.type = "canned" \/ Len(v.val) > 3
        THEN "too many values to unpack (expected 3)"
        ELSE "not enough values to unpack (expected 3)")

\* The commit of create_message expired `conversation`; reading
\* conversation.id reloads the row and raises when it is gone.
ObjectDeleted ==
    Exc("ObjectDeletedError", "Instance has been deleted, or its row is otherwise not present.")

\* The chat handler as it would be if a failure of the gateway call undid
\* the insert of the turn's user message.
ChatGetResponse_rolling_back(p) ==
    /\ pc[p] = "get_response"
    /\ \E oa \in OutcomesOf("openai", "openai"), an \in OutcomesOf("anthropic", "openai") :
         LET history == PyList(get_conversation_history(loc[p].conversation))
             call == get_response(history, "11-13", "openai", oa, an)
             llm == [called |-> TRUE, message |-> history,
                     result |-> call.result, attempts |-> call.attempts]
         IN  IF call.result.kind = "raise" \/ ~CanUnpack3(call.result.value)
             THEN /\ Finish(p, HandlerRaise("chat",
                         IF call.result.kind = "raise" THEN call.result.exc
                         ELSE UnpackError(call.result.value)))
                  /\ loc' = [loc EXCEPT ![p].llm = llm]
                  /\ messages' = SelectSeq(messages, LAMBDA m :
                         \A i \in 1..Len(made[p].messages) : made[p].messages[i].id # m.id)
             ELSE /\ loc' = [loc EXCEPT ![p].llm = llm,
                                        ![p].response = call.result.value.val]
                  /\ pc' = [pc EXCEPT ![p] = "assistant_message"]
                  /\ UNCHANGED <<out, messages>>
    /\ UNCHANGED <<openai_client, anthropic_client, users, conversations, clock,
                   req, made, nreq, gw, crud, vm>>

\* Lines 142-146: the history is read, get_response is called with the
\* history as its only argument and its result is unpacked into three names.
ChatGetResponse(p) ==
    /\ pc[p] = "get_response"
    /\ IF ~ConversationExists(loc[p].conversation)
       THEN /\ Finish(p, HandlerRaise("chat", ObjectDeleted))
            /\ UNCHANGED loc
       ELSE \E oa \in OutcomesOf("openai", "openai"), an \in OutcomesOf("anthropic", "openai") :
              LET history == PyList(get_conversation_history(loc[p].conversation))
                  call == get_response(history, "11-13", "openai", oa, an)
                  llm == [called |-> TRUE, message |-> history,
                          result |-> call.result, attempts |-> call.attempts]
              IN  IF call.result.kind = "raise"
                  THEN /\ Finish(p, HandlerRaise("chat", call.result.exc))
                       /\ loc' = [loc EXCEPT ![p].llm = llm]
                  ELSE IF ~CanUnpack3(call.result.value)
                  THEN /\ Finish(p, HandlerRaise("chat", UnpackError(call.result.value)))
                       /\ loc' = [loc EXCEPT ![p].llm = llm]
                  ELSE /\ loc' = [loc EXCEPT ![p].llm = llm,
                                             ![p].response = call.result.value.val]
                       /\ pc' = [pc EXCEPT ![p] = "assistant_message"]
                       /\ UNCHANGED out
    /\ UNCHANGED <<openai_client, anthropic_client, store, req, made, nreq, gw, crud, vm>>

\* Lines 148-152: create_message inserts the assistant message and commits.
ChatAssistantMessage(p) ==
    /\ pc[p] = "assistant_message"
    /\ LET m == NewMessage(loc[p].conversation, <<loc[p].response[1]>>,
                           "assistant", loc[p].response[2], loc[p].response[3])
       IN  /\ messages' = Append(messages, m)
           /\ made' = [made EXCEPT ![p].messages = Append(@,
                    [id |-> m.id, conversation_id |-> m.conversation_id, role |-> m.role])]
           /\ loc' = [loc EXCEPT ![p].assistant_message = m.id]
    /\ clock' = clock + 1
    /\ pc' = [pc EXCEPT ![p] = "touch"]
    /\ UNCHANGED <<openai_client, anthropic_client, users, conversations, req,
                   out, nreq, gw, crud, vm>>

\* Lines 154-155: update_conversation_timestamp.
ChatTouch(p) ==
    /\ pc[p] = "touch"
    /\ IF ~ConversationExists(loc[p].conversation)
       THEN /\ Finish(p, HandlerRaise("chat", ObjectDeleted))
            /\ UNCHANGED <<conversations, clock>>
       ELSE LET c == get_conversation(loc[p].conversation)
            IN  /\ conversations' = (conversations \ {c})
                        \cup {[c EXCEPT !.updated_at = clock + 1]}
                /\ clock' = clock + 1
                /\ pc' = [pc EXCEPT ![p] = "return"]
                /\ UNCHANGED out
    /\ UNCHANGED <<openai_client, anthropic_client, users, messages, req, loc,
                   made, nreq, gw, crud, vm>>

\* ChatResponse.tokens_used is an int: a str is accepted when it is a number.
ValidationError ==
    Exc("ValidationError", "1 validation error for ChatResponse tokens_used")

\* Lines 157-163: the ChatResponse is built from the locals; the rows that
\* the last commit expired are reloaded.
ChatReturn(p) ==
    /\ pc[p] = "return"
    /\ Finish(p,
         IF \/ ~ConversationExists(loc[p].conversation)
            \/ ~MessageExists(loc[p].assistant_message)
         THEN HandlerRaise("chat", ObjectDeleted)
         ELSE IF loc[p].response[2] \notin Digits
         THEN HandlerRaise("chat", ValidationError)
         ELSE HandlerReturn(<<[response |-> <<loc[p].response[1]>>,
                               conversation_id |-> loc[p].conversation,
                               message_id |-> loc[p].assistant_message,
                               tokens_used |-> loc[p].response[2],
                               llm_provider |-> loc[p].response[3]]>>))
    /\ UNCHANGED <<openai_client, anthropic_client, store, req, loc, made, nreq, gw, crud, vm>>

(***************************************************************************)
(* GET /conversations/{session_id}: get_conversations.                     *)
(***************************************************************************)
ListBegin(p) ==
    /\ \E sid \in Sessions :
         LET r == [NoRequest EXCEPT !.kind = "list", !.session_id = sid]
         IN  Receive(p, r) /\ GetUser(p, r)
    /\ UNCHANGED <<openai_client, anthropic_client, store, gw, crud, vm>>

\* The default of the limit parameter.
DefaultLimit == 10

\* ORDER BY updated_at DESC; rows of equal updated_at by id.
OrderByUpdatedAtDesc(S) ==
    [i \in 1..Cardinality(S) |->
        CHOOSE c \in S :
            Cardinality({d \in S :
                \/ d.updated_at > c.updated_at
                \/ d.updated_at = c.updated_at /\ d.id < c.id}) = i - 1]

\* get_user_conversations
get_user_conversations(user_id, limit) ==
    Prefix(OrderByUpdatedAtDesc({c \in conversations : c.user_id = user_id}), limit)

ListReturn(p) ==
    /\ pc[p] = "list"
    /\ Finish(p, HandlerReturn(get_user_conversations(loc[p].user, DefaultLimit)))
    /\ UNCHANGED <<openai_client, anthropic_client, store, req, loc, made, nreq, gw, crud, vm>>

(***************************************************************************)
(* GET /conversations/{session_id}/{conversation_id}:                      *)
(* get_conversation_details.                                               *)
(***************************************************************************)
\* A conversation id of the path; ids start at 1.
PathConvIds == 1..(MaxRequests - 1)

DetailBegin(p) ==
    /\ \E sid \in Sessions, cid \in PathConvIds :
         LET r == [NoRequest EXCEPT !.kind = "detail", !.session_id = sid,
                                    !.conversation_id = cid]
         IN  Receive(p, r) /\ GetUser(p, r)
    /\ UNCHANGED <<openai_client, anthropic_client, store, gw, crud, vm>>

\* The conversation is not there, or it is another user's.
NotFoundOrNotOwned(p) ==
    \/ ~ConversationExists(req[p].conversation_id)
    \/ get_conversation(req[p].conversation_id).user_id # loc[p].user

\* get_conversation_details as it would be if it told a caller that the
\* conversation is another user's.
DetailReturn_revealing(p) ==
    /\ pc[p] = "detail"
    /\ Finish(p,
         IF ~ConversationExists(req[p].conversation_id)
         THEN HandlerRaise("detail", HTTPException(404, "Conversation not found"))
         ELSE IF get_conversation(req[p].conversation_id).user_id # loc[p].user
         THEN HandlerRaise("detail", HTTPException(403, "Not your conversation"))
         ELSE HandlerReturn(<<[conversation |-> get_conversation(req[p].conversation_id),
                               messages |-> get_conversation_messages(req[p].conversation_id)]>>))
    /\ UNCHANGED <<openai_client, anthropic_client, store, req, loc, made, nreq, gw, crud, vm>>

DetailReturn(p) ==
    /\ pc[p] = "detail"
    /\ Finish(p,
         IF NotFoundOrNotOwned(p)
         THEN HandlerRaise("detail", HTTPException(404, "Conversation not found"))
         ELSE HandlerReturn(<<[conversation |-> get_conversation(req[p].conversation_id),
                               messages |-> get_conversation_messages(req[p].conversation_id)]>>))
    /\ UNCHANGED <<openai_client, anthropic_client, store, req, loc, made, nreq, gw, crud, vm>>

(***************************************************************************)
(* DELETE /conversations/{session_id}/{conversation_id}:                   *)
(* delete_conversation_endpoint.                                           *)
(***************************************************************************)
DeleteBegin(p) ==
    /\ \E sid \in Sessions, cid \in PathConvIds :
         LET r == [NoRequest EXCEPT !.kind = "delete", !.session_id = sid,
                                    !.conversation_id = cid]
         IN  Receive(p, r) /\ GetUser(p, r)
    /\ UNCHANGED <<openai_client, anthropic_client, store, gw, crud, vm>>

\* delete_conversation_endpoint as it would be if it only checked that the
\* conversation exists.
DeleteCheck_existence_only(p) ==
    /\ pc[p] = "delete_check"
    /\ IF ~ConversationExists(req[p].conversation_id)
       THEN Finish(p, HandlerRaise("delete", HTTPException(404, "Conversation not found")))
       ELSE /\ pc' = [pc EXCEPT ![p] = "delete"]
            /\ UNCHANGED out
    /\ UNCHANGED <<openai_client, anthropic_client, store, req, loc, made, nreq, gw, crud, vm>>

\* Lines 224-230: the conversation is read and its owner checked.
DeleteCheck(p) ==
    /\ pc[p] = "delete_check"
    /\ IF NotFoundOrNotOwned(p)
       THEN Finish(p, HandlerRaise("delete", HTTPException(404, "Conversation not found")))
       ELSE /\ pc' = [pc EXCEPT ![p] = "delete"]
            /\ UNCHANGED out
    /\ UNCHANGED <<openai_client, anthropic_client, store, req, loc, made, nreq, gw, crud, vm>>

\* Lines 232-239: delete_conversation reads the conversation again, deletes
\* its messages and the row and commits, or returns False.
DeleteDo(p) ==
    /\ pc[p] = "delete"
    /\ LET success == delete_conversation(req[p].conversation_id)
       IN  IF success.returned
           THEN /\ messages' = success.messages
                /\ conversations' = success.conversations
                /\ clock' = clock + 1
                /\ Finish(p, HandlerReturn(<<[message |-> "Conversation deleted successfully"]>>))
           ELSE /\ Finish(p, HandlerRaise("delete",
                       HTTPException(500, "Failed to delete conversation")))
                /\ UNCHANGED <<messages, conversations, clock>>
    /\ UNCHANGED <<openai_client, anthropic_client, users, req, loc, made, nreq, gw, crud, vm>>

(***************************************************************************)
(* One session that chats and deletes its conversation from two clients at *)
(* the same time.                                                          *)
(***************************************************************************)
\* Requests of the racing session in one behaviour.
MaxRaceRequests == 3

\* POST /chat with no conversation_id.
RaceChatBegin(p) ==
    /\ LET r == [kind |-> "chat", session_id |-> "s1",
                 message |-> <<"H", "e", "l", "l", "o", "!">>,
                 age_group |-> None, conversation_id |-> 0]
       IN  /\ ReceiveWithin(p, r, MaxRaceRequests)
           /\ IF ~DictTruthy(validate_message(r.message))
              THEN /\ Finish(p, HandlerRaise("chat", HTTPException(400,
                          "Message contains inappropriate content for children")))
                   /\ loc' = [loc EXCEPT ![p] = NoLocals]
              ELSE GetUser(p, r)
    /\ UNCHANGED <<openai_client, anthropic_client, store, gw, crud, vm>>

\* DELETE /conversations/s1/1
RaceDeleteBegin(p) ==
    /\ LET r == [NoRequest EXCEPT !.kind = "delete", !.session_id = "s1",
                                  !.conversation_id = 1]
       IN  ReceiveWithin(p, r, MaxRaceRequests) /\ GetUser(p, r)
    /\ UNCHANGED <<openai_client, anthropic_client, store, gw, crud, vm>>

RaceNext ==
    \E p \in Procs :
        \/ RaceChatBegin(p)
        \/ RaceDeleteBegin(p)
        \/ CreateUser(p)
        \/ ChatResolve(p)
        \/ ChatUserMessage(p)
        \/ ChatGetResponse(p)
        \/ ChatAssistantMessage(p)
        \/ ChatTouch(p)
        \/ ChatReturn(p)
        \/ DeleteCheck(p)
        \/ DeleteDo(p)

(***************************************************************************)
(* A direct call of llm_service.get_response with a message, an age group  *)
(* and a preferred provider.                                               *)
(***************************************************************************)
NoGatewayCall ==
    [called |-> FALSE, message |-> NoValue, age_group |-> None, provider |-> "",
     oa |-> AnyOutcome, an |-> AnyOutcome,
     result |-> Return(NoValue), attempts |-> <<>>]

\* Messages of the direct calls: str values and, as the chat handler passes,
\* a history list.
GatewayMessages ==
    { PyStr(<<"H", "e", "l", "l", "o", "!">>),
      PyStr(<<"W", "h", "a", "t", " ", "i", "s", " ", "a", " ", "P", "C", "?">>),
      PyStr(<<"t", "h", "i", "s">>),
      PyStr(<<"w", "h", "y">>),
      PyStr(<<"W", "h", "i", "c", "h", " ", "l", "a", "p", "t", "o", "p", "?">>),
      PyList(<<[role |-> "user", content |-> <<"H", "e", "l", "l", "o", "!">>]>>) }

GatewayAgeGroups == AgeGroups \cup {None, "17-18"}

GatewayProviders == {"openai", "anthropic", "other"}

CallGetResponse ==
    /\ ~gw.called
    /\ \E m \in GatewayMessages, a \in GatewayAgeGroups, pr \in GatewayProviders,
          oa \in ProviderOutcomes, an \in ProviderOutcomes :
         LET call == get_response(m, a, pr, oa, an)
         IN  gw' = [called |-> TRUE, message |-> m, age_group |-> a,
                    provider |-> pr, oa |-> oa, an |-> an,
                    result |-> call.result, attempts |-> call.attempts]
    /\ UNCHANGED <<openai_client, anthropic_client, store, pc, req, loc, out,
                   made, nreq, crud, vm>>

(***************************************************************************)
(* Direct calls of the store functions of app/crud.py, as the handlers and *)
(* init_db.py make them.                                                   *)
(***************************************************************************)
\* Direct store calls in one behaviour.
MaxStoreCalls == 5

\* Conversation ids of the direct calls.
StoreConvIds == 1..2

StoreUserIds == 1..2

StoreTitles == { <<>>, <<"H", "i">> }

StoreRoles == {"user", "assistant"}

\* n: the calls made; op, conversation_id, returned: the latest call;
\* before: the tables as the latest call found them; appended: for each
\* conversation id, the ids of the messages create_message has appended to
\* it since it was last deleted.
NoStoreCall ==
    [n |-> 0, op |-> "", conversation_id |-> 0, returned |-> "",
     before |-> [conversations |-> {}, messages |-> <<>>],
     appended |-> [c \in StoreConvIds |-> <<>>]]

StoreCall(op, conversation_id, returned, appended) ==
    [n |-> crud.n + 1, op |-> op, conversation_id |-> conversation_id,
     returned |-> returned,
     before |-> [conversations |-> conversations, messages |-> messages],
     appended |-> appended]

CallCreateConversation ==
    /\ crud.n < MaxStoreCalls
    /\ \E u \in StoreUserIds, t \in StoreTitles :
         LET c == NewConversation(u, t)
         IN  /\ conversations' = conversations \cup {c}
             /\ crud' = StoreCall("create_conversation", c.id, "row", crud.appended)
    /\ clock' = clock + 1
    /\ UNCHANGED <<openai_client, anthropic_client, users, messages, pc, req,
                   loc, out, made, nreq, gw, vm>>

CallCreateMessage ==
    /\ crud.n < MaxStoreCalls
    /\ \E cid \in StoreConvIds, role \in StoreRoles :
         LET m == NewMessage(cid, <<"H", "i">>, role, "0", "unknown")
         IN  /\ messages' = Append(messages, m)
             /\ crud' = StoreCall("create_message", cid, "row",
                            [crud.appended EXCEPT ![cid] = Append(@, m.id)])
    /\ clock' = clock + 1
    /\ UNCHANGED <<openai_client, anthropic_client, users, conversations, pc,
                   req, loc, out, made, nreq, gw, vm>>

CallUpdateConversationTimestamp ==
    /\ crud.n < MaxStoreCalls
    /\ \E cid \in StoreConvIds :
         /\ crud' = StoreCall("update_conversation_timestamp", cid, "None",
                        crud.appended)
         /\ IF ConversationExists(cid)
            THEN /\ conversations' = (conversations \ {get_conversation(cid)})
                        \cup {[get_conversation(cid) EXCEPT !.updated_at = clock + 1]}
                 /\ clock' = clock + 1
            ELSE UNCHANGED <<conversations, clock>>
    /\ UNCHANGED <<openai_client, anthropic_client, users, messages, pc, req,
                   loc, out, made, nreq, gw, vm>>

CallDeleteConversation ==
    /\ crud.n < MaxStoreCalls
    /\ \E cid \in StoreConvIds :
         LET d == delete_conversation(cid)
         IN  /\ conversations' = d.conversations
             /\ messages' = d.messages
             /\ clock' = IF d.returned THEN clock + 1 ELSE clock
             /\ crud' = StoreCall("delete_conversation", cid,
                            IF d.returned THEN "True" ELSE "False",
                            IF d.returned
                            THEN [crud.appended EXCEPT ![cid] = <<>>]
                            ELSE crud.appended)
    /\ UNCHANGED <<openai_client, anthropic_client, users, pc, req, loc, out,
                   made, nreq, gw, vm>>

StoreNext ==
    \/ CallCreateConversation
    \/ CallCreateMessage
    \/ CallUpdateConversationTimestamp
    \/ CallDeleteConversation

(***************************************************************************)
(* A direct call of llm_service.validate_message.                          *)
(***************************************************************************)
\* str.upper() on one character.
UpperChar(c) ==
    IF \E i \in 1..Len(LowerChars) : LowerChars[i] = c
    THEN UpperChars[CHOOSE i \in 1..Len(LowerChars) : LowerChars[i] = c]
    ELSE c

\* The letter casings a term is written in: as listed, upper case, first
\* letter upper case, every second letter upper case.
Casings == {"lower", "upper", "capitalized", "alternating"}

Cased(w, casing) ==
    [i \in 1..Len(w) |->
        IF \/ casing = "upper"
           \/ casing = "capitalized" /\ i = 1
           \/ casing = "alternating" /\ i % 2 = 0
        THEN UpperChar(w[i]) ELSE w[i]]

\* n times the character x.
Pad(n) == [i \in 1..n |-> "x"]

\* The text around a term.
TextBefore ==
    { <<>>, <<"m", "y", " ">>, <<"x">>, Pad(MaxMessageLen),
      Pad(MaxMessageLen - Len(inappropriate_words[6])) }
TextAfter == { <<>>, <<"!">>, <<" ", "i", "s", " ", "1">> }

\* Messages with no disallowed term: empty, blank, short, of 999, 1000 and
\* 1001 characters, and 1001 blanks.
TermFreeMessages ==
    { <<>>, <<" ", " ">>, <<"\t", "\n">>,
      <<"H", "e", "l", "l", "o", "!">>,
      <<"p", "a", "s", "s", " ", "w", "o", "r", "d">>,
      <<"S", "e", "c", "r", "e", " ", "t">>,
      Pad(MaxMessageLen - 1), Pad(MaxMessageLen), Pad(MaxMessageLen + 1),
      [i \in 1..(MaxMessageLen + 1) |-> " "] }

\* term: the index in inappropriate_words of the term the message was built
\* around, 0 when it has none.
NoValidatorCall ==
    [called |-> FALSE, message |-> <<>>, term |-> 0,
     result |-> [valid |-> FALSE, reason |-> ""]]

CallValidateMessage ==
    /\ ~vm.called
    /\ \/ \E k \in 1..Len(inappropriate_words), c \in Casings,
             b \in TextBefore, a \in TextAfter :
              LET m == b \o Cased(inappropriate_words[k], c) \o a
              IN  vm' = [called |-> TRUE, message |-> m, term |-> k,
                         result |-> validate_message(m)]
       \/ \E m \in TermFreeMessages :
              vm' = [called |-> TRUE, message |-> m, term |-> 0,
                     result |-> validate_message(m)]
    /\ UNCHANGED <<openai_client, anthropic_client, store, pc, req, loc, out,
                   made, nreq, gw, crud>>

(***************************************************************************)
(* Specifications.                                                         *)
(***************************************************************************)
\* The service starts with empty tables; the clients exist or not according
\* to the keys of the environment (_initialize_clients).
Init ==
    /\ openai_client \in BOOLEAN
    /\ anthropic_client \in BOOLEAN
    /\ users = <<>>
    /\ conversations = {}
    /\ messages = <<>>
    /\ clock = 0
    /\ pc = [p \in Procs |-> "idle"]
    /\ req = [p \in Procs |-> NoRequest]
    /\ loc = [p \in Procs |-> NoLocals]
    /\ out = [p \in Procs |-> NoOutcome]
    /\ made = [p \in Procs |-> NoRows]
    /\ nreq = 0
    /\ gw = NoGatewayCall
    /\ crud = NoStoreCall
    /\ vm = NoValidatorCall

\* The steps a handler takes once it has its request.
Step(p) ==
        \/ CreateUser(p)
        \/ ChatResolve(p)
        \/ ChatUserMessage(p)
        \/ ChatGetResponse(p)
        \/ ChatAssistantMessage(p)
        \/ ChatTouch(p)
        \/ ChatReturn(p)
        \/ ListReturn(p)
        \/ DetailReturn(p)
        \/ DeleteCheck(p)
        \/ DeleteDo(p)

\* The handlers are coroutines that never await: the event loop of
\* uvicorn.run(app) runs each request to its end before the next.
EventLoop == {1}

Next ==
    \E p \in EventLoop :
        \/ ChatBegin(p)
        \/ ListBegin(p)
        \/ DetailBegin(p)
        \/ DeleteBegin(p)
        \/ Step(p)

\* The service as api.py starts it: one request at a time.
Spec == Init /\ [][Next]_vars

\* Several workers over one store: the handlers of concurrent requests
\* interleave between their database statements.
ConcurrentNext ==
    \E p \in Procs :
        \/ ConcurrentChatBegin(p)
        \/ ListBegin(p)
        \/ DetailBegin(p)
        \/ DeleteBegin(p)
        \/ Step(p)

ConcurrentSpec == Init /\ [][ConcurrentNext]_vars

\* The provider gateway called on its own.
GatewaySpec == Init /\ [][CallGetResponse]_vars

\* Chat turns and deletions of one session, interleaved.
RaceSpec == Init /\ [][RaceNext]_vars

\* The store functions called on their own.
StoreSpec == Init /\ [][StoreNext]_vars

\* The validator called on its own.
ValidatorSpec == Init /\ [][CallValidateMessage]_vars

(***************************************************************************)
(* Properties.                                                             *)
(***************************************************************************)
\* Handler p has answered its request.
Done(p) == pc[p] = "idle" /\ out[p].status # 0

ChatDone(p) == Done(p) /\ req[p].kind = "chat"

\* The validator rejects the message of p's request.
Rejected(p) == ~validate_message(req[p].message).valid

ClientError(status) == status >= 400 /\ status <= 499
ServerError(status) == status >= 500 /\ status <= 599

\* C1: a chat request whose message the validator rejects (empty or
\* whitespace-only, over 1000 characters, or with a disallowed term) creates
\* no conversation and no message.
C1_RejectedChatWritesNothing ==
    \A p \in Procs :
        (req[p].kind = "chat" /\ Rejected(p)) =>
            /\ made[p].conversations = {}
            /\ made[p].messages = <<>>

\* C2: a chat request whose message the validator rejects ends with a 4xx
\* outcome that carries the validator's reason; a message with "password"
\* is rejected with the personal-information reason whatever the age band.
C2_RejectedChatIsClientError ==
    \A p \in Procs :
        (ChatDone(p) /\ Rejected(p)) =>
            /\ ClientError(out[p].status)
            /\ out[p].cause.msg = validate_message(req[p].message).reason

\* The conversation that p's request names exists and is another user's.
NamesForeignConversation(p) ==
    /\ req[p].conversation_id # 0
    /\ loc[p].user # 0
    /\ ConversationExists(req[p].conversation_id)
    /\ get_conversation(req[p].conversation_id).user_id # loc[p].user

\* C3: a chat request that names an existing conversation of another
\* session's user ends in an authorization error (a 4xx "not found") and
\* appends no message.
C3_ForeignConversationIsAuthorizationError ==
    \A p \in Procs :
        (ChatDone(p) /\ NamesForeignConversation(p)) =>
            /\ ClientError(out[p].status)
            /\ made[p].messages = <<>>

\* The conversation that p's request names is missing or another user's,
\* and the request was not the one that removed it.
NamesNoConversationOfCaller(p) ==
    /\ req[p].kind \in {"chat", "detail", "delete"}
    /\ req[p].conversation_id # 0
    /\ loc[p].user # 0
    /\ NotFoundOrNotOwned(p)
    /\ out[p].status # 200

\* C4: a chat, detail or delete request that names a conversation that does
\* not exist or is not the caller's is answered 404, never 5xx.
C4_MissingConversationIs404 ==
    \A p \in Procs :
        (Done(p) /\ NamesNoConversationOfCaller(p)) => out[p].status = 404

\* C5: with no provider configured, a chat request of a new session token
\* with a valid message and age band B is answered with the fallback entry
\* of B and the message's topic, and exactly one new conversation with
\* exactly two messages, user then assistant, is stored.
C5_FirstChatGetsFallbackAndTwoMessages ==
    \A p \in Procs :
        (/\ ChatDone(p)
         /\ ~openai_client /\ ~anthropic_client
         /\ ~Rejected(p)
         /\ req[p].age_group \in AgeGroups
         /\ req[p].conversation_id = 0
         /\ made[p].users # {}) =>
            /\ out[p].status = 200
            /\ Cardinality(made[p].conversations) = 1
            /\ Len(made[p].messages) = 2
            /\ made[p].messages[1].role = "user"
            /\ made[p].messages[2].role = "assistant"
            /\ loc[p].llm.result =
                   Return(FallbackEntry(req[p].age_group,
                                        SelectTopic(Lower(req[p].message))))

\* C6: a chat turn that passes validation and conversation resolution
\* appends exactly one user message followed by exactly one assistant
\* message.
C6_TurnAppendsUserThenAssistant ==
    \A p \in Procs :
        (ChatDone(p) /\ loc[p].conversation # 0) =>
            /\ Len(made[p].messages) = 2
            /\ made[p].messages[1].role = "user"
            /\ made[p].messages[2].role = "assistant"
            /\ \A i \in 1..2 : made[p].messages[i].conversation_id = loc[p].conversation

\* C7: with neither provider configured get_response returns an entry of
\* the fallback table and never raises, also for the context the chat
\* handler passes.
C7_UnconfiguredGatewayReturnsFallback ==
    \A p \in Procs :
        (loc[p].llm.called /\ ~openai_client /\ ~anthropic_client) =>
            /\ loc[p].llm.result.kind = "return"
            /\ loc[p].llm.result.value \in FallbackTable

\* The provider the call prefers is configured and its attempt failed.
PreferredFailed(g) ==
    \/ g.provider = "openai" /\ openai_client /\ IsFailure(g.oa)
    \/ g.provider = "anthropic" /\ anthropic_client /\ IsFailure(g.an)

OtherConfigured(g) ==
    \/ g.provider = "openai" /\ anthropic_client
    \/ g.provider = "anthropic" /\ openai_client

InSeq(x, seq) == \E i \in 1..Len(seq) : seq[i] = x

C9_GatewayAlwaysReturns ==
    \A p \in Procs :
        loc[p].llm.called =>
            /\ loc[p].llm.result.kind = "return"
            /\ InSeq("fallback", loc[p].llm.attempts) =>
                   loc[p].llm.result.value \in FallbackTable

\* Handler p is past get_or_create_user.
HasCalledGetOrCreateUser(p) ==
    /\ req[p].kind # ""
    /\ pc[p] # "create_user"
    /\ ~(req[p].kind = "chat" /\ out[p].cause.status = 400)

\* C10: two calls of get_or_create_user with the same session token, one
\* after the other or interleaved, both return a user, and the same one.
C10_SameTokenSameUser ==
    \A p, q \in Procs :
        (/\ HasCalledGetOrCreateUser(p)
         /\ HasCalledGetOrCreateUser(q)
         /\ req[p].session_id = req[q].session_id) =>
            /\ loc[p].user # 0
            /\ loc[q].user # 0
            /\ loc[p].user = loc[q].user

\* C11: after N messages have been appended to a conversation, replaying it
\* yields exactly those N messages in the order they were created; across
\* the appends the conversation's updated_at never decreases and is never
\* earlier than its created_at.
C11_ReplayInCreationOrder ==
    /\ \A cid \in StoreConvIds :
         LET replay == get_conversation_messages(cid)
         IN  /\ Len(replay) = Len(crud.appended[cid])
             /\ \A i \in 1..Len(replay) : replay[i].id = crud.appended[cid][i]
    /\ \A c \in conversations :
         /\ c.updated_at >= c.created_at
         /\ \A b \in crud.before.conversations :
              (b.id = c.id /\ b.created_at = c.created_at) =>
                  c.updated_at >= b.updated_at

\* Three messages have been appended to a conversation that has been
\* touched since it was created.
C11_Witness ==
    \E cid \in StoreConvIds :
        /\ Len(crud.appended[cid]) >= 3
        /\ Len(get_conversation_messages(cid)) >= 3
        /\ ConversationExists(cid)
        /\ get_conversation(cid).updated_at > get_conversation(cid).created_at

\* C12: every message append bumps the conversation's updated_at in the
\* commit of the message insert: in no reachable state, those left by a
\* turn that fails midway included, is a stored message newer than the
\* updated_at of its conversation.
C12_AppendBumpsUpdatedAt ==
    \A i \in 1..Len(messages) :
        ConversationExists(messages[i].conversation_id) =>
            get_conversation(messages[i].conversation_id).updated_at
                >= messages[i].created_at

\* The conversation the latest direct call names was there before the call.
ExistedBefore == \E c \in crud.before.conversations : c.id = crud.conversation_id

\* C13: delete_conversation on an existing conversation removes it and
\* every message of it, leaves the other rows alone and returns true, and a
\* lookup of the id then finds nothing; on an id that does not exist it
\* returns false and changes nothing.
C13_DeleteRemovesConversationAndMessages ==
    crud.op = "delete_conversation" =>
        IF ExistedBefore
        THEN /\ crud.returned = "True"
             /\ ~ConversationExists(crud.conversation_id)
             /\ Len(get_conversation_messages(crud.conversation_id)) = 0
             /\ conversations =
                    {c \in crud.before.conversations : c.id # crud.conversation_id}
             /\ messages = SelectSeq(crud.before.messages,
                                LAMBDA m : m.conversation_id # crud.conversation_id)
        ELSE /\ crud.returned = "False"
             /\ conversations = crud.before.conversations
             /\ messages = crud.before.messages

\* A conversation that held two messages, next to a message of another
\* conversation, has been deleted.
C13_Witness ==
    /\ crud.op = "delete_conversation"
    /\ ExistedBefore
    /\ crud.returned = "True"
    /\ Len(SelectSeq(crud.before.messages,
               LAMBDA m : m.conversation_id = crud.conversation_id)) >= 2
    /\ Len(messages) >= 1

\* C14: for every message that contains a disallowed term as a substring,
\* in any letter casing and with any text around it, validate_message
\* returns a rejected outcome.
C14_DisallowedTermIsRejected ==
    (vm.called /\ vm.term # 0) => ~vm.result.valid

\* A message with an upper-case term between other text, short enough to
\* reach the term check, has been rejected for the term.
C14_Witness ==
    /\ vm.called
    /\ vm.term # 0
    /\ Len(vm.message) <= MaxMessageLen
    /\ vm.message # Lower(vm.message)
    /\ Len(vm.message) > Len(inappropriate_words[vm.term]) + 1
    /\ vm.result = [valid |-> FALSE, reason |-> ReasonPersonal]

\* C15 as the specification states it: every message shorter than 1000
\* characters that contains no disallowed term is accepted.
C15_ShortCleanMessageIsAccepted ==
    (vm.called /\ vm.term = 0 /\ Len(vm.message) < 1000) => vm.result.valid

\* C15, amended: every message of at most 1000 characters that has a
\* character other than whitespace and contains no disallowed term is
\* accepted; a message that is empty or all whitespace is rejected.
C15_NonBlankCleanMessageIsAccepted ==
    (vm.called /\ vm.term = 0) =>
        /\ (Len(vm.message) <= 1000 /\ ~StripIsEmpty(vm.message)) =>
               vm.result = [valid |-> TRUE, reason |-> ReasonOk]
        /\ StripIsEmpty(vm.message) =>
               vm.result = [valid |-> FALSE, reason |-> ReasonEmpty]

\* A message of exactly 1000 characters with no disallowed term has been
\* accepted.
C15_Witness ==
    /\ vm.called
    /\ vm.term = 0
    /\ Len(vm.message) = 1000
    /\ vm.result.valid

\* C16: in the chat, detail and delete operations the response for a
\* conversation id that another user owns is identical to the response for
\* an id that does not exist: each is the one not-found response of the
\* operation, whichever of the two cases holds.
C16_ForeignAndMissingAnswerAlike ==
    \A p \in Procs :
        (Done(p) /\ NamesNoConversationOfCaller(p)) =>
            out[p] = NotFoundResponse(req[p].kind)

\* A request that names another user's conversation has been answered.
C16_Witness ==
    \E p \in Procs :
        /\ Done(p)
        /\ NamesForeignConversation(p)
        /\ out[p] = NotFoundResponse(req[p].kind)

\* Exception classes of a failed store operation.
StoreErrors == {"IntegrityError", "ObjectDeletedError"}

\* C17: the chat operation ends in a 5xx outcome only when a store
\* operation failed, and only after the validator and the ownership check
\* have passed; validation errors, authorization errors and provider
\* failures never give a 5xx outcome.
C17_ServerFaultOnlyFromStore ==
    \A p \in Procs :
        (ChatDone(p) /\ ServerError(out[p].status)) =>
            /\ out[p].cause.type \in StoreErrors
            /\ ~Rejected(p)
            /\ ~NamesNoConversationOfCaller(p)

\* The turn of p failed after its user message was stored and before an
\* assistant message was.
FailedAfterUserMessage(p) ==
    /\ ChatDone(p)
    /\ out[p].status # 200
    /\ loc[p].llm.called
    /\ loc[p].assistant_message = 0

\* C18: when a chat turn fails after its user message was persisted and
\* before its assistant message is, the user message stays stored in its
\* conversation as an unanswered user turn: nothing is rolled back and no
\* assistant message exists for the turn.
C18_FailedTurnKeepsUserMessage ==
    \A p \in Procs :
        FailedAfterUserMessage(p) =>
            LET replay == get_conversation_messages(loc[p].conversation)
            IN  /\ Len(made[p].messages) = 1
                /\ Len(replay) >= 1
                /\ replay[Len(replay)].id = made[p].messages[1].id
                /\ replay[Len(replay)].role = "user"
                /\ replay[Len(replay)].content = req[p].message
                /\ ConversationExists(loc[p].conversation)

\* A turn has failed between its two messages, in a conversation that
\* already held an earlier message.
C18_Witness ==
    \E p \in Procs :
        /\ FailedAfterUserMessage(p)
        /\ Len(get_conversation_messages(loc[p].conversation)) >= 2

\* C19: within a chat turn the steps come in the order validate, resolve,
\* persist user message, build context, obtain response, persist assistant
\* message, touch, return: the gateway is not called before the turn's
\* user message is committed, the context it gets is the stored history
\* of the conversation ending with that user message, and the conversation
\* is touched only after the assistant message is committed.
C19_TurnStepsInOrder ==
    \A p \in Procs :
        req[p].kind = "chat" =>
            /\ pc[p] \in {"create_user", "resolve", "user_message"} =>
                   /\ ~loc[p].llm.called
                   /\ made[p].messages = <<>>
            /\ pc[p] = "create_user" => loc[p].conversation = 0
            /\ loc[p].llm.called =>
                   LET h == loc[p].llm.message.val
                       stored == get_conversation_history(loc[p].conversation)
                   IN  /\ Len(made[p].messages) >= 1
                       /\ made[p].messages[1].role = "user"
                       /\ loc[p].llm.message.type = "list"
                       /\ Len(h) >= 1
                       /\ h[Len(h)] = [role |-> "user", content |-> req[p].message]
                       /\ Len(stored) >= Len(h)
                       /\ SubSeq(stored, 1, Len(h)) = h
            /\ pc[p] \in {"touch", "return"} =>
                   /\ Len(made[p].messages) = 2
                   /\ made[p].messages[2].role = "assistant"
                   /\ MessageExists(loc[p].assistant_message)
            /\ (made[p].conversations # {} /\ Len(made[p].messages) < 2) =>
                   \A c \in conversations :
                       c.id \in made[p].conversations => c.updated_at = c.created_at
            /\ (pc[p] = "return" \/ out[p].status = 200) =>
                   \A i \in 1..Len(messages) :
                       messages[i].id = loc[p].assistant_message =>
                           get_conversation(loc[p].conversation).updated_at
                               > messages[i].created_at

\* A turn in a conversation that held an earlier turn has gone through all
\* its steps.
C19_Witness ==
    \E p \in Procs :
        /\ ChatDone(p)
        /\ out[p].status = 200
        /\ req[p].conversation_id # 0
        /\ Len(loc[p].llm.message.val) >= 3

\* Details that contain the text "Failed to get response from".
FailedToGetResponseDetails ==
    {"Failed to get response from OpenAI", "Failed to get response from Anthropic",
     "Failed to get response from LLM"}

\* C20: with no provider key configured, a valid chat request of a session
\* ends with status 200 or with status 500 and a detail that contains
\* "Failed to get response from"; it has no other outcome.
C20_NoKeysChatIs200OrFailedToGetResponse ==
    \A p \in Procs :
        (/\ ChatDone(p)
         /\ ~openai_client /\ ~anthropic_client
         /\ ~Rejected(p)
         /\ req[p].conversation_id = 0) =>
            \/ out[p].status = 200
            \/ /\ out[p].status = 500
               /\ \/ out[p].prefix \in FailedToGetResponseDetails
                  \/ out[p].cause.msg \in FailedToGetResponseDetails

\* The message of the latest validator call has no character that
\* str.strip() keeps.
VmBlank == \A i \in 1..Len(vm.message) : vm.message[i] \in Whitespace

\* C22: validate_message applies its rules in order, the first match
\* winning: an empty or whitespace-only message is rejected as empty;
\* otherwise a message of more than 1000 characters is rejected as too long
\* and one of exactly 1000 is not; otherwise a message with a disallowed
\* term is rejected for the term.  So a message over 1000 characters with a
\* disallowed term is rejected as too long.
C22_RulesInOrderFirstMatchWins ==
    vm.called =>
        IF VmBlank
        THEN vm.result = [valid |-> FALSE, reason |-> ReasonEmpty]
        ELSE IF Len(vm.message) > 1000
        THEN vm.result = [valid |-> FALSE, reason |-> ReasonTooLong]
        ELSE /\ vm.result.reason # ReasonTooLong
             /\ vm.result.reason # ReasonEmpty
             /\ vm.term # 0 =>
                    vm.result = [valid |-> FALSE, reason |-> ReasonPersonal]

\* A message of more than 1000 characters with a disallowed term has been
\* rejected as too long.
C22_Witness ==
    /\ vm.called
    /\ vm.term # 0
    /\ Len(vm.message) > 1000
    /\ vm.result = [valid |-> FALSE, reason |-> ReasonTooLong]

\* c is a letter.
IsLetter(c) == \E i \in 1..Len(LowerChars) : c = LowerChars[i] \/ c = UpperChars[i]

\* w is one of the words of s: it occurs in s with no letter before it and
\* no letter after it.
HasWord(s, w) ==
    \E i \in 1..(Len(s) - Len(w) + 1) :
        /\ SubSeq(s, i, i + Len(w) - 1) = w
        /\ i = 1 \/ ~IsLetter(s[i - 1])
        /\ i + Len(w) - 1 = Len(s) \/ ~IsLetter(s[i + Len(w)])

\* A keyword of the k-th topic is one of the words of the message.
TopicHasWord(message_lower, k) ==
    \E w \in topic_keywords[k].words : HasWord(message_lower, w)

\* The first topic, in priority order, with a keyword among the words of
\* the message; "default" when there is none.
TopicByWords(message_lower) ==
    IF \E k \in 1..Len(topic_keywords) : TopicHasWord(message_lower, k)
    THEN topic_keywords[CHOOSE k \in 1..Len(topic_keywords) :
                            /\ TopicHasWord(message_lower, k)
                            /\ \A j \in 1..(k - 1) : ~TopicHasWord(message_lower, j)].topic
    ELSE "default"

\* C23: the fallback topic is chosen by a case-insensitive keyword
\* membership test in the priority greeting > computer > internet > coding
\* > safety > math > science: a message with a keyword of topic T among its
\* words and no keyword of an earlier topic among its words gets T's text
\* for the age band, and a message with no keyword gets the default text.
C23_TopicByKeywordAmongWords ==
    (gw.called /\ gw.message.type = "str" /\ InSeq("fallback", gw.attempts)) =>
        gw.result =
            Return(FallbackEntry(
                IF gw.age_group \in AgeGroups THEN gw.age_group ELSE "11-13",
                TopicByWords(Lower(gw.message.val))))

\* The prompt the chat handler's call of get_response hands to the provider
\* it attempts: get_response passes its message and its default age group
\* to _prepare_messages.
PromptSent(p) == _prepare_messages(loc[p].llm.message, "11-13")

\* The call of p attempted a provider.
ProviderAttempted(p) ==
    /\ loc[p].llm.called
    /\ loc[p].llm.attempts[1] \in {"openai", "anthropic"}

\* C24: the prompt built for a provider is one system entry first, with the
\* directive for the age band of the request, followed by every entry of
\* the supplied history, unmodified and in its order.
C24_PromptIsSystemEntryThenHistory ==
    \A p \in Procs :
        ProviderAttempted(p) =>
            LET prompt == PromptSent(p)
                history == loc[p].llm.message.val
            IN  /\ Len(prompt) = 1 + Len(history)
                /\ prompt[1].role = "system"
                /\ req[p].age_group \in AgeGroups =>
                       prompt[1].content = SystemPrompt(req[p].age_group)
                /\ \A i \in 1..Len(history) :
                       /\ prompt[i + 1].role = history[i].role
                       /\ prompt[i + 1].content.type = "str"
                       /\ prompt[i + 1].content.val = history[i].content

\* The user a handler holds is the row of its request's session token.
HoldsUserOfToken ==
    \A p \in Procs :
        loc[p].user # 0 =>
            /\ loc[p].user <= Len(users)
            /\ users[loc[p].user].session_id = req[p].session_id

\* A step leaves every user row as it is, and adds at most one row, of a
\* session token that no row had.
UsersOnlyGrowByNewTokens ==
    /\ Len(users') >= Len(users)
    /\ \A i \in 1..Len(users) : users'[i] = users[i]
    /\ users' # users =>
           /\ Len(users') = Len(users) + 1
           /\ \A i \in 1..Len(users) :
                  users[i].session_id # users'[Len(users')].session_id

\* C25: a user is never updated or deleted after creation:
\* get_or_create_user with a known session token and another age band
\* returns the existing user, with its original age band, and leaves the
\* user table unchanged, and no chat, listing, detail or delete operation
\* removes a user.
C25_UsersNeverUpdatedOrDeleted ==
    []HoldsUserOfToken /\ [][UsersOnlyGrowByNewTokens]_vars

\* A request with a known session token and an age band other than the
\* user's has been answered.
C25_Witness ==
    \E p \in Procs :
        /\ Done(p)
        /\ loc[p].user # 0
        /\ made[p].users = {}
        /\ req[p].age_group \in AgeGroups
        /\ users[loc[p].user].age_group \in AgeGroups
        /\ users[loc[p].user].age_group # req[p].age_group

\* C26: in every reachable state no two users have the same session token,
\* also when two requests make first contact with one token concurrently.
C26_SessionTokensUnique ==
    \A i, j \in 1..Len(users) :
        users[i].session_id = users[j].session_id => i = j

\* Two requests made first contact with one token at the same time: one
\* inserted the user and the insert of the other was refused.
C26_Witness ==
    \E p, q \in Procs :
        /\ p # q
        /\ req[p].session_id = req[q].session_id
        /\ made[p].users # {}
        /\ out[q].cause.type = "IntegrityError"
        /\ Cardinality({i \in 1..Len(users) :
                           users[i].session_id = req[p].session_id}) = 1

\* C27: after any interleaving of concurrent chat turns and conversation
\* deletions every stored message references a conversation that exists: a
\* deletion that commits between a turn's ownership check and one of its
\* message inserts leaves no orphaned message.
C27_NoOrphanedMessage ==
    \A i \in 1..Len(messages) : ConversationExists(messages[i].conversation_id)

\* The number of messages of the given role in a sequence of rows.
CountRole(ms, role) == Cardinality({i \in 1..Len(ms) : ms[i].role = role})

\* C28: in every conversation and every reachable state, also after failed
\* turns and under concurrent turns on one conversation, there are no more
\* assistant messages than user messages, and the first message in creation
\* order has role user.
C28_AssistantNeverAheadOfUser ==
    \A c \in conversations :
        LET ms == get_conversation_messages(c.id)
        IN  /\ CountRole(ms, "assistant") <= CountRole(ms, "user")
            /\ Len(ms) > 0 => ms[1].role = "user"

\* Conversation id is stored for a user whose session token is not sid.
OwnedByOtherSession(id, sid) ==
    \E c \in conversations :
        /\ c.id = id
        /\ c.user_id \in 1..Len(users)
        /\ users[c.user_id].session_id # sid

\* In a step of a delete request of a session that does not own the
\* conversation it names, the conversation row and its messages stay.
ForeignDeleteKeepsRows ==
    \A p \in Procs :
        (/\ req'[p].kind = "delete"
         /\ OwnedByOtherSession(req'[p].conversation_id, req'[p].session_id)) =>
            /\ {c \in conversations' : c.id = req'[p].conversation_id}
                   = {c \in conversations : c.id = req'[p].conversation_id}
            /\ SelectSeq(messages', LAMBDA m : m.conversation_id = req'[p].conversation_id)
                   = SelectSeq(messages, LAMBDA m : m.conversation_id = req'[p].conversation_id)

\* C29: a delete request of a session whose user does not own the named
\* conversation leaves that conversation and all its messages stored and
\* unchanged.
C29_ForeignDeleteChangesNothing == [][ForeignDeleteKeepsRows]_vars

\* A delete request for another user's conversation, which holds a
\* message, has been answered.
C29_Witness ==
    \E p \in Procs :
        /\ Done(p)
        /\ req[p].kind = "delete"
        /\ NamesForeignConversation(p)
        /\ Len(get_conversation_messages(req[p].conversation_id)) >= 1

\* A row of users has session token sid.
TokenKnown(sid) == \E i \in 1..Len(users) : users[i].session_id = sid

\* A listing, detail or delete request that is past get_or_create_user has
\* a user record for its token, and the listing for a token first seen with
\* the request returns the empty sequence.
ReadersCreateTheirUser ==
    \A p \in Procs :
        /\ (req[p].kind \in {"list", "detail", "delete"} /\ pc[p] # "create_user") =>
               TokenKnown(req[p].session_id)
        /\ (Done(p) /\ req[p].kind = "list" /\ made[p].users # {}) =>
               out[p] = HandlerReturn(<<>>)

\* A step of a listing or detail request whose token was known leaves the
\* three tables as they are.
KnownReadersWriteNothing ==
    \A p \in Procs :
        (req'[p].kind \in {"list", "detail"} /\ TokenKnown(req'[p].session_id)) =>
            UNCHANGED <<users, conversations, messages>>

\* C30: the listing, detail and delete operations called with a session
\* token never seen before create a user record for the token, and the
\* listing then returns an empty sequence; called with a known token,
\* listing and detail leave users, conversations and messages unchanged.
C30_ReadersCreateUserAndNothingElse ==
    []ReadersCreateTheirUser /\ [][KnownReadersWriteNothing]_vars

\* A listing for a token never seen before has created the user and
\* returned the empty sequence.
C30_Witness ==
    \E p \in Procs :
        /\ Done(p)
        /\ req[p].kind = "list"
        /\ made[p].users # {}
        /\ TokenKnown(req[p].session_id)
        /\ out[p] = HandlerReturn(<<>>)

====
